---------------------------- MODULE Spec2Model ----------------------------
(***************************************************************************)
(* Model of the mycarbon_validator package: the plan builder, the column   *)
(* selector, the cell validator, the per-sheet orchestrator and the run    *)
(* orchestrator (validate_all).                                            *)
(*                                                                         *)
(* Text is modelled as a sequence of one-character strings, so that        *)
(* str.strip(), float() and the membership tests of the validator are      *)
(* computed character by character.                                        *)
(***************************************************************************)
EXTENDS Integers, Sequences, FiniteSets, TLC

VARIABLES
    pc,                 \* position of the running function
    validation_sheet,   \* the Rule Catalog (a DataFrame: fields + rows)
    plan_df,            \* the validation plan (None, or a sequence of entries)
    idx,                \* validate_all: enumerate(..., start=1) index
    total,              \* validate_all: len(plan_df)
    overall_counts,     \* validate_all: Error Kind -> int
    per_sheet_results,  \* validate_all: list of Sheet Results
    vos,                \* outcome of the current validate_one_sheet call
    calls,              \* (sheet, table) of every validate_one_sheet call made
    progress_calls,     \* (idx, total, sheet, result) of every callback call
    progress_callback,  \* TRUE when a callback was supplied
    file,               \* file_or_path: its kind and read position
    df,                 \* the Dataset handed to select_validation_columns
    sheet,              \* the target sheet of the column selector / validator
    subset,             \* the Validation Subset (None before selection)
    error_cells,        \* the Error Map (None before validation)
    uploaded,           \* app.main: the value of the file uploader
    session_state       \* app.main: st.session_state

vars == <<pc, validation_sheet, plan_df, idx, total, overall_counts,
          per_sheet_results, vos, calls, progress_calls, progress_callback,
          file, df, sheet, subset, error_cells, uploaded, session_state>>

appVars == <<uploaded, session_state>>

None == "None"
NaN  == "NaN"

-----------------------------------------------------------------------------
(* Text *)

Range(s) == { s[i] : i \in 1..Len(s) }

Digit == {"0", "1", "2", "3", "4", "5", "6", "7", "8", "9"}

DigitVal(c) ==
    CASE c = "0" -> 0 [] c = "1" -> 1 [] c = "2" -> 2 [] c = "3" -> 3
      [] c = "4" -> 4 [] c = "5" -> 5 [] c = "6" -> 6 [] c = "7" -> 7
      [] c = "8" -> 8 [] c = "9" -> 9

DigitChar(d) == <<"0", "1", "2", "3", "4", "5", "6", "7", "8", "9">>[d + 1]

\* str(n) for a Python int
RECURSIVE NatStr(_)
NatStr(n) == IF n < 10 THEN <<DigitChar(n)>>
             ELSE Append(NatStr(n \div 10), DigitChar(n % 10))

IntStr(n) == IF n < 0 THEN <<"-">> \o NatStr(0 - n) ELSE NatStr(n)

RECURSIVE LStrip(_)
LStrip(s) == IF s # <<>> /\ Head(s) = " " THEN LStrip(Tail(s)) ELSE s

RECURSIVE RStrip(_)
RStrip(s) == IF s # <<>> /\ s[Len(s)] = " "
             THEN RStrip(SubSeq(s, 1, Len(s) - 1)) ELSE s

\* str.strip()
Strip(s) == RStrip(LStrip(s))

IsDigits(s) == s # <<>> /\ \A i \in 1..Len(s) : s[i] \in Digit

RECURSIVE NatOf(_)
NatOf(s) == IF s = <<>> THEN 0
            ELSE 10 * NatOf(SubSeq(s, 1, Len(s) - 1)) + DigitVal(s[Len(s)])

RECURSIVE LeadingNines(_)
LeadingNines(s) == IF s # <<>> /\ Head(s) = "9" THEN 1 + LeadingNines(Tail(s)) ELSE 0

\* The decimal literals float() accepts: digits, with at most one point and
\* at least one digit.  (Exponents and underscores are outside the modelled
\* alphabet.)
DotAt(u) == IF "." \in Range(u) THEN CHOOSE i \in 1..Len(u) : u[i] = "." /\ \A j \in 1..(i-1) : u[j] # "."
            ELSE 0
IntPart(u)  == IF DotAt(u) = 0 THEN u ELSE SubSeq(u, 1, DotAt(u) - 1)
FracPart(u) == IF DotAt(u) = 0 THEN <<>> ELSE SubSeq(u, DotAt(u) + 1, Len(u))
IsDecimal(u) ==
    /\ IntPart(u) = <<>> \/ IsDigits(IntPart(u))
    /\ FracPart(u) = <<>> \/ IsDigits(FracPart(u))
    /\ IntPart(u) # <<>> \/ FracPart(u) # <<>>

IsSpecial(u) == u \in { <<"n","a","n">>, <<"i","n","f">> }

Unsigned(t) == IF t # <<>> /\ Head(t) \in {"+", "-"} THEN Tail(t) ELSE t

\* float(s) succeeds
FloatOk(s) == LET u == Unsigned(Strip(s)) IN IsDecimal(u) \/ IsSpecial(u)

\* float(s) is nan or inf: int() of it raises
FloatSpecial(s) == IsSpecial(Unsigned(Strip(s)))

\* int(float(s)) for a finite float: truncation toward zero of the binary64
\* value.  A fraction within half an ulp of 1 (13 or more leading nines, for
\* magnitudes in 1024..4095) is rounded by float() to the next integer.
IntOfFloat(s) ==
    LET t   == Strip(s)
        u   == Unsigned(t)
        mag == NatOf(IntPart(u)) + (IF LeadingNines(FracPart(u)) >= 13 THEN 1 ELSE 0)
    IN  IF t # <<>> /\ Head(t) = "-" THEN 0 - mag ELSE mag

-----------------------------------------------------------------------------
(* Cell values: {Null, Boolean, Number, Text}; v is the value's str() form *)

NullV     == [t |-> "null",  v |-> <<"n","a","n">>]
Text(s)   == [t |-> "text",  v |-> s]
IntV(n)   == [t |-> "int",   v |-> IntStr(n)]
FloatV(n, tenth) == [t |-> "float", v |-> IntStr(n) \o <<".", DigitChar(tenth)>>]
BoolV(b)  == [t |-> "bool",  v |-> IF b THEN <<"T","r","u","e">> ELSE <<"F","a","l","s","e">>]

isna(value)   == value.t = "null"
Str(value)    == value.v
IsEmptyStr(value) == value.t = "text" /\ value.v = <<>>


-----------------------------------------------------------------------------
(* DataFrames.  A Dataset is its column labels (in order), its row labels  *)
(* and, per column label, the cells of the column in row order; attrs      *)
(* carries the missing_required list.  A Rule Catalog is its set of fields *)
(* and its rows.                                                           *)

Frame(columns, index, data) ==
    [columns |-> columns, index |-> index, data |-> data, missing_required |-> <<>>]

NRows(d) == Len(d.index)

Cols(d) == Range(d.columns)

\* cell == s, for a str s: only a text cell equals a str
CellEqStr(value, s) == value.t = "text" /\ value.v = s

RECURSIVE SelectRows(_, _)
SelectRows(rows, s) ==
    IF rows = <<>> THEN <<>>
    ELSE (IF CellEqStr(Head(rows).Sheet, s) THEN <<Head(rows)>> ELSE <<>>)
         \o SelectRows(Tail(rows), s)

\* validation_rules[validation_rules['Sheet'] == sheet]
RulesForSheet(validation_rules, s) == SelectRows(validation_rules.rows, s)

ColumnList(rules) == [i \in 1..Len(rules) |-> rules[i].Column]

\* df[present]: the columns of the list, in the order of the list
Project(d, present) ==
    [columns |-> present, index |-> d.index,
     data |-> [c \in Range(present) |-> d.data[c]], missing_required |-> <<>>]

\* df.iloc[0:0]: no rows, every column of df
NoRows(d) ==
    [columns |-> d.columns, index |-> <<>>,
     data |-> [c \in Cols(d) |-> <<>>], missing_required |-> <<>>]

\* (mutant) the present columns in the order of the Dataset
SelectPresentDatasetOrder(required_columns, d) ==
    SelectSeq(d.columns, LAMBDA col : col \in Range(required_columns))

\* present = [col for col in required_columns if col in df.columns]
SelectPresentRuleOrder(required_columns, d) ==
    SelectSeq(required_columns, LAMBDA col : col \in Cols(d))

select_validation_columns(d, validation_rules, s) ==
    LET rules_for_sheet  == RulesForSheet(validation_rules, s)
        required_columns == ColumnList(rules_for_sheet)
        missing == SelectSeq(required_columns, LAMBDA col : col \notin Cols(d))
        present == SelectPresentRuleOrder(required_columns, d)
        sub     == IF present # <<>> THEN Project(d, present) ELSE NoRows(d)
    IN  [sub EXCEPT !.missing_required = missing]

-----------------------------------------------------------------------------
(* The cell validator *)

blank_indicators ==
    { <<"N","/","A">>, <<"n","/","a">>, <<"#","N","/","A">>, <<"#","n","/","a">>,
      <<"N","A","#">>, <<"n","a","#">>, <<"#","N","A">>, <<"#","n","a">>,
      <<"N","U","L","L">>, <<"n","u","l","l">>,
      <<"#","E","R","R","O","R">>, <<"#","E","r","r","o","r">> }

valid_boolean_values ==
    { <<"t","r","u","e">>, <<"f","a","l","s","e">>, <<"y">>, <<"n">>,
      <<"y","e","s">>, <<"n","o">>, <<"1">>, <<"0">>,
      <<"T","r","u","e">>, <<"F","a","l","s","e">>, <<"Y">>, <<"N">>,
      <<"Y","e","s">>, <<"N","o">>,
      <<"T","R","U","E">>, <<"F","A","L","S","E">>, <<"Y","E","S">>, <<"N","O">> }

YearMin == 1900
YearMax == 2100

\* str(rule['Datatype']).lower(), on the datatype names of the catalogs
Lower(datatype) ==
    CASE datatype = "Year"  -> "year"
      [] datatype = "INT"   -> "int"
      [] OTHER -> datatype

\* error_cells[key] = kind, for every key of keys
Put(m, keys, kind) ==
    [k \in (DOMAIN m) \cup keys |-> IF k \in keys THEN kind ELSE m[k]]

NoErrors == [k \in {} |-> "none"]

\* (mutant) the placeholders count as empty cells too
empty_mask_with_indicators(value) ==
    \/ isna(value)
    \/ IsEmptyStr(value)
    \/ Strip(Str(value)) \in blank_indicators

\* empty_mask = column_data.isna() | (column_data == '')
empty_mask(value) == isna(value) \/ IsEmptyStr(value)

IsBlankIndicator(value) == ~isna(value) /\ Strip(Str(value)) \in blank_indicators

\* (mutant) the placeholders are not kept out of the clean subset
valid_mask_keeps_indicators(value) ==
    /\ ~isna(value)
    /\ ~IsEmptyStr(value)

\* valid_mask: not null, not '', not a blank indicator
valid_mask(value) ==
    /\ ~isna(value)
    /\ ~IsEmptyStr(value)
    /\ Strip(Str(value)) \notin blank_indicators

\* (mutant) the bounds of the range are excluded
YearFailsExclusive(value) ==
    \/ ~FloatOk(Str(value))
    \/ FloatSpecial(Str(value))
    \/ ~(YearMin < IntOfFloat(Str(value)) /\ IntOfFloat(Str(value)) < YearMax)

\* try: year = int(float(str(value))); 1900 <= year <= 2100
YearFails(value) ==
    \/ ~FloatOk(Str(value))
    \/ FloatSpecial(Str(value))
    \/ ~(YearMin <= IntOfFloat(Str(value)) /\ IntOfFloat(Str(value)) <= YearMax)

IntegerFails(value) == ~FloatOk(Str(value)) \/ FloatSpecial(Str(value))

FloatFails(value) == ~FloatOk(Str(value))

BooleanFails(value) ==
    /\ value.t # "bool"
    /\ Strip(Str(value)) \notin valid_boolean_values

\* the type-error kind of a clean cell under expected_type, or None
TypeError(expected_type, value) ==
    CASE expected_type = "year" ->
            IF YearFails(value) THEN "invalid_year" ELSE None
      [] expected_type \in {"int", "integer"} ->
            IF IntegerFails(value) THEN "invalid_integer" ELSE None
      [] expected_type \in {"float", "number", "numeric"} ->
            IF FloatFails(value) THEN "invalid_float" ELSE None
      [] expected_type \in {"bool", "boolean"} ->
            IF BooleanFails(value) THEN "invalid_boolean" ELSE None
      [] OTHER -> None

TypeKinds == {"invalid_year", "invalid_integer", "invalid_float", "invalid_boolean"}

\* what one of the three checks of a rule records for a cell, or None
CheckKind(check, rule, value) ==
    CASE check = "required" ->
            IF rule.Required /\ empty_mask(value) THEN "empty_required" ELSE None
      [] check = "blank" ->
            IF ~rule.AllowBrokenRefs /\ IsBlankIndicator(value)
            THEN "blank_indicator" ELSE None
      [] check = "type" ->
            IF valid_mask(value) THEN TypeError(Lower(rule.Datatype), value) ELSE None

\* one check over the rows of the column, in row order, from row i on
RECURSIVE WriteRows(_, _, _, _, _)
WriteRows(m, data_sheet, rule, check, i) ==
    IF i > NRows(data_sheet) THEN m
    ELSE LET kind == CheckKind(check, rule, data_sheet.data[rule.Column][i])
             m1   == IF kind = None THEN m
                     ELSE Put(m, { <<data_sheet.index[i], rule.Column>> }, kind)
         IN  WriteRows(m1, data_sheet, rule, check, i + 1)

\* the body of the loop over the rules, for one rule
ApplyRule(error_cells0, data_sheet, rule) ==
    IF rule.Column \notin Cols(data_sheet) THEN error_cells0
    ELSE LET e1 == WriteRows(error_cells0, data_sheet, rule, "required", 1)
             e2 == WriteRows(e1, data_sheet, rule, "blank", 1)
         IN  WriteRows(e2, data_sheet, rule, "type", 1)

RECURSIVE ApplyRules(_, _, _)
ApplyRules(error_cells0, data_sheet, rules) ==
    IF rules = <<>> THEN error_cells0
    ELSE ApplyRules(ApplyRule(error_cells0, data_sheet, Head(rules)), data_sheet, Tail(rules))

\* data_sheet[column_name] is a frame, not a column, when the label repeats in
\* the subset: the masks of lines 67-69 (.str) then raise AttributeError
FindErrorsRaises(data_sheet, validation_rules, s) ==
    \E col \in { r.Column : r \in Range(RulesForSheet(validation_rules, s)) } :
        Cardinality({ j \in 1..Len(data_sheet.columns) : data_sheet.columns[j] = col }) > 1

\* (mutant) missing_column only for the columns of Required rules
find_errors_required_missing(data_sheet, validation_rules, s) ==
    LET rules_for_sheet == RulesForSheet(validation_rules, s)
        needed  == { r.Column : r \in { q \in Range(rules_for_sheet) : q.Required } }
        missing == { <<-1, col>> : col \in Range(data_sheet.missing_required) \cap needed }
    IN  ApplyRules(Put(NoErrors, missing, "missing_column"), data_sheet, rules_for_sheet)

\* the Error Map returned when no exception is raised
find_validation_errors(data_sheet, validation_rules, s) ==
    LET rules_for_sheet == RulesForSheet(validation_rules, s)
        missing == { <<-1, col>> : col \in Range(data_sheet.missing_required) }
    IN  ApplyRules(Put(NoErrors, missing, "missing_column"), data_sheet, rules_for_sheet)

\* styling.summarize_errors: frequency of each kind among the values
summarize_errors(m) ==
    [kind \in { m[k] : k \in DOMAIN m } |->
        Cardinality({ k \in DOMAIN m : m[k] = kind })]

-----------------------------------------------------------------------------
(* workflow.build_validation_plan *)

\* plan_df.dropna(subset=["Sheet"])
RECURSIVE DropNaSheet(_)
DropNaSheet(rows) ==
    IF rows = <<>> THEN <<>>
    ELSE (IF isna(Head(rows).Sheet) THEN <<>> ELSE <<Head(rows)>>) \o DropNaSheet(Tail(rows))

\* plan_df.drop_duplicates(): the first occurrence of every row is kept
RECURSIVE DropDuplicates(_)
DropDuplicates(rows) ==
    IF rows = <<>> THEN <<>>
    ELSE LET init == DropDuplicates(SubSeq(rows, 1, Len(rows) - 1))
             last == rows[Len(rows)]
         IN  IF last \in Range(init) THEN init ELSE Append(init, last)

build_validation_plan(validation_rules) ==
    IF "Sheet" \notin validation_rules.fields THEN <<>>
    ELSE LET picked == [i \in 1..Len(validation_rules.rows) |->
                          [Sheet     |-> validation_rules.rows[i].Sheet,
                           TableName |-> IF "TableName" \in validation_rules.fields
                                         THEN validation_rules.rows[i].TableName
                                         ELSE None]]
             kept   == DropNaSheet(picked)
             typed  == [i \in 1..Len(kept) |->
                          [Sheet |-> Str(kept[i].Sheet), TableName |-> kept[i].TableName]]
         IN  DropDuplicates(typed)

-----------------------------------------------------------------------------
(* workflow.validate_one_sheet and workflow.validate_all *)

SHEET_NOT_FOUND == "SHEET_NOT_FOUND:"
TABLE_NOT_FOUND == "TABLE_NOT_FOUND:"

\* marker in msg, for a message given as its sequence of words
Contains(msg, marker) == marker \in Range(msg)

\* msg.startswith(marker)
StartsWith(msg, marker) == msg # <<>> /\ msg[1] = marker

HasDuplicates(seq) == \E i, j \in 1..Len(seq) : i # j /\ seq[i] = seq[j]

\* the Styler refuses a frame whose column or row labels repeat
StyleMustRaise(data) == HasDuplicates(data.columns) \/ HasDuplicates(data.index)

NoCounts == [k \in {} |-> 0]

\* the "error" entry of a Sheet Result: None, or a message (a str)
ErrNone  == [none |-> TRUE,  msg |-> <<>>]
Err(msg) == [none |-> FALSE, msg |-> msg]

\* placeholder for "no dict was returned"
NoResult == [Sheet |-> <<>>, TableName |-> None, error |-> ErrNone, counts |-> NoCounts,
             html |-> "", missing_required |-> <<>>]

\* load is the outcome of load_excel_data: a Dataset, or an exception with a
\* message; style_raises says whether style_errors_as_html raises.
\* The value is either the returned dict or the exception that leaves the call;
\* "at" tells where the call ended (load_excel_data, the validation, the return).
validate_one_sheet(load, validation_rules, s, table_name, style_raises, style_msg) ==
    IF ~load.ok
    THEN [at |-> "load", raised |-> TRUE, msg |-> load.msg, result |-> NoResult]
    ELSE LET df_for_validation == select_validation_columns(load.df, validation_rules, s)
             missing_required  == df_for_validation.missing_required
             cells  == find_validation_errors(df_for_validation, validation_rules, s)
             counts == summarize_errors(cells)
         IN  IF FindErrorsRaises(df_for_validation, validation_rules, s)
             THEN [at |-> "validate", raised |-> TRUE, msg |-> <<"x">>, result |-> NoResult]
             ELSE IF style_raises
             THEN [at |-> "validate", raised |-> TRUE, msg |-> style_msg, result |-> NoResult]
             ELSE [at |-> "return", raised |-> FALSE, msg |-> <<>>,
                   result |-> [Sheet |-> s, TableName |-> table_name, error |-> ErrNone,
                               counts |-> counts, html |-> "table",
                               missing_required |-> missing_required]]

\* the except branch of validate_all: counts from the message
ClassifyFailure(msg) ==
    IF Contains(msg, SHEET_NOT_FOUND) THEN [k \in {"sheet_not_found"} |-> 1]
    ELSE IF Contains(msg, TABLE_NOT_FOUND) THEN [k \in {"table_not_found"} |-> 1]
    ELSE NoCounts

FailureResult(s, table, msg) ==
    [Sheet |-> s, TableName |-> table, error |-> Err(msg), counts |-> ClassifyFailure(msg),
     html |-> "", missing_required |-> <<>>]

\* overall_counts[et] = overall_counts.get(et, 0) + c, for every item of counts
FoldCounts(overall, counts) ==
    [et \in (DOMAIN overall) \cup (DOMAIN counts) |->
        (IF et \in DOMAIN overall THEN overall[et] ELSE 0)
      + (IF et \in DOMAIN counts THEN counts[et] ELSE 0)]

\* table = None if pd.isna(table) else table
NormTable(table) == IF table \in {NaN, None} THEN None ELSE table

-----------------------------------------------------------------------------
(* Inputs of a run *)

FileLen == 1

A == <<"A">>
B == <<"B">>

Rule(s, t, c, d, r, a) ==
    [Sheet |-> s, TableName |-> t, Column |-> c, Datatype |-> d,
     Required |-> r, AllowBrokenRefs |-> a]

AllFields == {"Sheet", "TableName", "Column", "Datatype", "Required", "AllowBrokenRefs"}

RunCatalog ==
    [fields |-> AllFields,
     rows   |-> << Rule(Text(A), NaN, "y", "year", TRUE, FALSE),
                   Rule(Text(B), "T", "f", "float", FALSE, TRUE) >>]

SeqsUpTo(S, n) == UNION { [1..k -> S] : k \in 0..n }

EntryA == [Sheet |-> A, TableName |-> NaN]
EntryB == [Sheet |-> B, TableName |-> "T"]

\* plans handed to validate_all by a caller (an entry may repeat)
RunPlans ==
    { <<>>, <<EntryA>>, <<EntryB>>, <<EntryA, EntryB>>, <<EntryB, EntryA>>,
      <<EntryA, EntryA>>, <<EntryB, EntryA, EntryB>> }

PlanNone       == [none |-> TRUE,  rows |-> <<>>]
PlanOf(rows)   == [none |-> FALSE, rows |-> rows]

T1899 == Text(<<"1","8","9","9">>)
TNA   == Text(<<"N","/","A">>)
Tabc  == Text(<<"a","b","c">>)

RunDatasets ==
    { Frame(<<"y", "f">>, <<0>>,
            [c \in {"y", "f"} |-> IF c = "y" THEN <<IntV(1900)>> ELSE <<FloatV(1, 5)>>]),
      Frame(<<"y">>, <<0, 1>>, [c \in {"y"} |-> <<Text(<<>>), IntV(2000)>>]),
      Frame(<<"f", "y">>, <<0, 1>>,
            [c \in {"y", "f"} |-> IF c = "y" THEN <<T1899, TNA>> ELSE <<Tabc, NullV>>]) }

\* messages of the exceptions, each a sequence of words
Messages ==
    { <<>>, <<"x">>, <<SHEET_NOT_FOUND, "x">>, <<TABLE_NOT_FOUND, "x">>,
      <<TABLE_NOT_FOUND, SHEET_NOT_FOUND>>, <<"x", TABLE_NOT_FOUND>> }

LoadOutcomes ==
    { [ok |-> TRUE, df |-> d, msg |-> <<>>] : d \in RunDatasets }
    \cup { [ok |-> FALSE, df |-> Frame(<<>>, <<>>, <<>>), msg |-> m] : m \in Messages }

\* hasattr(file_or_path, "seek"): a path has none; an uploaded file (getvalue),
\* a seekable stream and a stream that cannot seek (a pipe) have one
HasSeek(f) == f.kind \in {"uploaded", "stream", "pipe"}

\* seek(0) raises on a stream that is not seekable
SeekRaises(f) == f.kind = "pipe"

Seekable(f) == HasSeek(f) /\ ~SeekRaises(f)

Files == { [kind |-> "path", pos |-> 0] }
         \cup { [kind |-> k, pos |-> p] :
                   k \in {"uploaded", "stream", "pipe"}, p \in 0..FileLen }

EmptyFrame == Frame(<<>>, <<>>, <<>>)
NoVos == [at |-> "none", raised |-> FALSE, msg |-> <<>>, result |-> NoResult]

-----------------------------------------------------------------------------
(* validate_all, step by step *)

sheetVars == <<df, sheet, subset, error_cells>>

\* the uploader without a file; a signature that is not there; a new session
NoUpload  == [none |-> TRUE, name |-> "", size |-> 0, loads |-> <<>>]
NoSig     == <<>>
NoSession == [last_file_sig |-> NoSig, upload_success |-> FALSE,
              validation_success |-> FALSE, validated_file_sig |-> NoSig]

IdleApp ==
    /\ uploaded = NoUpload
    /\ session_state = NoSession

IdleSheet ==
    /\ df = EmptyFrame
    /\ sheet = <<>>
    /\ subset = EmptyFrame
    /\ error_cells = NoErrors

IdleRun ==
    /\ idx = 0
    /\ total = 0
    /\ overall_counts = NoCounts
    /\ per_sheet_results = <<>>
    /\ vos = NoVos
    /\ calls = <<>>
    /\ progress_calls = <<>>

runVars == <<idx, total, overall_counts, per_sheet_results, vos, calls, progress_calls>>

Init ==
    /\ pc = "start"
    /\ validation_sheet = RunCatalog
    /\ plan_df \in {PlanNone} \cup { PlanOf(rows) : rows \in RunPlans }
    /\ progress_callback \in BOOLEAN
    /\ file \in Files
    /\ IdleRun
    /\ IdleApp
    /\ IdleSheet

\* the plan entry of the current iteration: row["Sheet"], and the TableName
\* with a missing value turned into None
CurSheet == plan_df.rows[idx].Sheet
CurTable == NormTable(plan_df.rows[idx].TableName)

\* lines 102-108: build the plan when none was given, set up the accumulators
Start ==
    /\ pc = "start"
    /\ LET rows == IF plan_df.none THEN build_validation_plan(validation_sheet)
                   ELSE plan_df.rows
       IN  /\ plan_df' = PlanOf(rows)
           /\ total' = Len(rows)
           /\ idx' = IF Len(rows) > 0 THEN 1 ELSE 0
           /\ pc' = IF Len(rows) > 0 THEN "rewind" ELSE "done"
    /\ overall_counts' = NoCounts
    /\ per_sheet_results' = <<>>
    /\ UNCHANGED appVars
    /\ UNCHANGED <<validation_sheet, vos, calls, progress_calls, progress_callback, file>>
    /\ UNCHANGED sheetVars

\* (mutant) the pointer is reset before the first entry only
RewindFirstEntryOnly ==
    /\ pc = "rewind"
    /\ file' = IF Seekable(file) /\ idx = 1 THEN [file EXCEPT !.pos = 0] ELSE file
    /\ pc' = "call"
    /\ UNCHANGED appVars
    /\ UNCHANGED <<validation_sheet, plan_df, progress_callback>>
    /\ UNCHANGED runVars
    /\ UNCHANGED sheetVars

\* lines 114-119: file_or_path.seek(0), any exception of it swallowed
Rewind ==
    /\ pc = "rewind"
    /\ \/ /\ HasSeek(file) /\ ~SeekRaises(file)
          /\ file' = [file EXCEPT !.pos = 0]
       \/ /\ HasSeek(file) /\ SeekRaises(file)     \* seek raised: pass
          /\ file' = file
       \/ /\ ~HasSeek(file)
          /\ file' = file
    /\ pc' = "call"
    /\ UNCHANGED appVars
    /\ UNCHANGED <<validation_sheet, plan_df, progress_callback>>
    /\ UNCHANGED runVars
    /\ UNCHANGED sheetVars

\* loader._get_bytes: getvalue() leaves the position alone; without it the
\* stream is read (after a seek(0) that may fail) and left where the read stopped
AfterRead(f, p) ==
    IF f.kind \in {"stream", "pipe"} THEN [f EXCEPT !.pos = p] ELSE f

\* where the reads of a retrieval can leave the pointer: anywhere in a stream
\* (seek(0), then read), forward only in a pipe, where it was otherwise
ReadEnds(f) ==
    CASE f.kind = "stream" -> 0..FileLen
      [] f.kind = "pipe"   -> f.pos..FileLen
      [] OTHER             -> {f.pos}

\* line 122: the call of validate_one_sheet, returning or raising
CallValidateOneSheet ==
    /\ pc = "call"
    /\ \/ \E load \in LoadOutcomes :
             /\ ~load.ok                  \* load_excel_data raises
             /\ vos' = validate_one_sheet(load, validation_sheet, CurSheet, CurTable,
                                          FALSE, <<>>)
       \/ \E load \in LoadOutcomes :
             /\ load.ok                   \* the sheet is loaded and validated
             /\ ~StyleMustRaise(select_validation_columns(load.df, validation_sheet, CurSheet))
             /\ vos' = validate_one_sheet(load, validation_sheet, CurSheet, CurTable,
                                          FALSE, <<>>)
       \/ \E load \in LoadOutcomes, style_msg \in Messages :
             /\ load.ok                   \* an exception while validating
             /\ vos' = validate_one_sheet(load, validation_sheet, CurSheet, CurTable,
                                          TRUE, style_msg)
    /\ \E p \in ReadEnds(file) :
          file' = AfterRead(file, p)
    /\ calls' = Append(calls, <<CurSheet, CurTable>>)
    /\ pc' = "append"
    /\ UNCHANGED appVars
    /\ UNCHANGED <<validation_sheet, plan_df, idx, total, overall_counts,
                   per_sheet_results, progress_calls, progress_callback>>
    /\ UNCHANGED sheetVars

\* lines 123-141: the except branch, the append and the fold of the counts
CurResult == IF vos.raised THEN FailureResult(CurSheet, CurTable, vos.msg) ELSE vos.result

AppendResult ==
    /\ pc = "append"
    /\ per_sheet_results' = Append(per_sheet_results, CurResult)
    /\ overall_counts' = FoldCounts(overall_counts, CurResult.counts)
    /\ pc' = "progress"
    /\ UNCHANGED appVars
    /\ UNCHANGED <<validation_sheet, plan_df, idx, total, vos, calls, progress_calls,
                   progress_callback, file>>
    /\ UNCHANGED sheetVars

\* (mutant) a failed sheet ends the loop
NextEntryStopsOnError ==
    /\ idx' = IF idx < total /\ per_sheet_results[Len(per_sheet_results)].error.none
              THEN idx + 1 ELSE idx
    /\ pc' = IF idx < total /\ per_sheet_results[Len(per_sheet_results)].error.none
             THEN "rewind" ELSE "done"

\* the for statement: the next entry, or the return
NextEntry ==
    /\ idx' = IF idx < total THEN idx + 1 ELSE idx
    /\ pc' = IF idx < total THEN "rewind" ELSE "done"

\* one invocation of the callback: its arguments, and whether it raised
Invocation(raised) ==
    [idx |-> idx, total |-> total, sheet |-> CurSheet,
     result |-> per_sheet_results[Len(per_sheet_results)], raised |-> raised]

\* (mutant) an exception of the callback leaves validate_all
ProgressPropagates ==
    /\ pc = "progress"
    /\ \/ /\ progress_callback
          /\ progress_calls' = Append(progress_calls, Invocation(FALSE))
          /\ NextEntry
       \/ /\ progress_callback
          /\ progress_calls' = Append(progress_calls, Invocation(TRUE))
          /\ idx' = idx
          /\ pc' = "done"
       \/ /\ ~progress_callback
          /\ progress_calls' = progress_calls
          /\ NextEntry
    /\ UNCHANGED appVars
    /\ UNCHANGED <<validation_sheet, plan_df, total, overall_counts, per_sheet_results,
                   vos, calls, progress_callback, file>>
    /\ UNCHANGED sheetVars

\* lines 143-148: the callback, whose exceptions are swallowed
Progress ==
    /\ pc = "progress"
    /\ \/ /\ progress_callback          \* the callback returns
          /\ progress_calls' = Append(progress_calls, Invocation(FALSE))
          /\ NextEntry
       \/ /\ progress_callback          \* the callback raises
          /\ progress_calls' = Append(progress_calls, Invocation(TRUE))
          /\ NextEntry
       \/ /\ ~progress_callback
          /\ progress_calls' = progress_calls
          /\ NextEntry
    /\ UNCHANGED appVars
    /\ UNCHANGED <<validation_sheet, plan_df, total, overall_counts, per_sheet_results,
                   vos, calls, progress_callback, file>>
    /\ UNCHANGED sheetVars

Next == Start \/ Rewind \/ CallValidateOneSheet \/ AppendResult \/ Progress

Spec == Init /\ [][Next]_vars

\* the loop is sequential code: every step is taken
FairSpec == Spec /\ WF_vars(Next)

-----------------------------------------------------------------------------
(* Properties of validate_all *)

Plan == plan_df.rows

Done == pc = "done"

\* what the i-th entry of the plan hands to validate_one_sheet
PlanCall(i) == <<Plan[i].Sheet, NormTable(Plan[i].TableName)>>

Failed(r) == ~r.error.none

\* C1: validate_all ends, and when it has ended every plan entry was handed to
\* validate_one_sheet exactly once, in plan order, and the list of results has
\* one result per entry, the i-th carrying the Sheet and TableName of the i-th
\* entry, whatever failed before it.
C1_Results ==
    /\ Len(per_sheet_results) <= Len(calls)
    /\ \A i \in 1..Len(calls) : calls[i] = PlanCall(i)
    /\ \A i \in 1..Len(per_sheet_results) :
          /\ per_sheet_results[i].Sheet = Plan[i].Sheet
          /\ per_sheet_results[i].TableName = NormTable(Plan[i].TableName)
    /\ Done => /\ Len(per_sheet_results) = Len(Plan)
               /\ Len(calls) = Len(Plan)

C1_EveryEntryProcessed == [](C1_Results) /\ <>Done

C1_Witness ==
    /\ Done
    /\ Len(Plan) = 3
    /\ Failed(per_sheet_results[1])
    /\ Failed(per_sheet_results[2])
    /\ ~Failed(per_sheet_results[3])

\* C2: with a callback supplied, the k-th invocation has index k, the total,
\* the sheet name and the result of the k-th entry; one invocation has been made
\* per finished entry (len(plan) of them at the end), whether sheets failed or
\* the callback raised; and the step of the callback, raising or not, leaves the
\* results and the overall counts as they were and goes on to the next entry.
C2_Invocations ==
    progress_callback =>
        /\ \A k \in 1..Len(progress_calls) :
              /\ progress_calls[k].idx = k
              /\ progress_calls[k].total = Len(Plan)
              /\ progress_calls[k].sheet = Plan[k].Sheet
              /\ progress_calls[k].result = per_sheet_results[k]
        /\ pc \in {"rewind", "call", "append", "progress"} => Len(progress_calls) = idx - 1
        /\ Done => /\ Len(progress_calls) = Len(Plan)
                   /\ Len(per_sheet_results) = Len(Plan)

C2_CallbackStep ==
    pc = "progress" =>
        /\ per_sheet_results' = per_sheet_results
        /\ overall_counts' = overall_counts
        /\ pc' = IF idx < Len(Plan) THEN "rewind" ELSE "done"

C2_ProgressCallback == [](C2_Invocations) /\ [][C2_CallbackStep]_vars

C2_Witness ==
    /\ Done
    /\ progress_callback
    /\ Len(progress_calls) = 3
    /\ progress_calls[1].raised
    /\ ~progress_calls[3].raised
    /\ Failed(per_sheet_results[2])

CountOf(counts, kind) == IF kind \in DOMAIN counts THEN counts[kind] ELSE 0

RECURSIVE SumOver(_, _)
SumOver(results, kind) ==
    IF results = <<>> THEN 0
    ELSE CountOf(Head(results).counts, kind) + SumOver(Tail(results), kind)

SheetKinds(results) == UNION { DOMAIN results[i].counts : i \in 1..Len(results) }

\* the accumulation of lines 140-141: overall_counts is the per-kind sum of the
\* counts of the results appended so far, with no other key
OverallCountsAreSums ==
    /\ DOMAIN overall_counts = SheetKinds(per_sheet_results)
    /\ \A kind \in DOMAIN overall_counts :
          overall_counts[kind] = SumOver(per_sheet_results, kind)

\* the end-to-end case: sheet A loaded with exactly one empty required cell,
\* sheet B failed with a message prefixed TABLE_NOT_FOUND:
EndToEndCase ==
    /\ Done
    /\ Len(Plan) = 2
    /\ Len(per_sheet_results) = 2
    /\ ~Failed(per_sheet_results[1])
    /\ per_sheet_results[1].counts = [kind \in {"empty_required"} |-> 1]
    /\ Failed(per_sheet_results[2])
    /\ StartsWith(per_sheet_results[2].error.msg, TABLE_NOT_FOUND)

\* C3: overall_counts is, kind by kind, the sum of the per-sheet counts and has
\* no key of its own; and in the end-to-end case the overall counts are
\* {empty_required: 1, table_not_found: 1}, with two results in plan order and
\* an error on sheet B.
C3_OverallCounts ==
    /\ OverallCountsAreSums
    /\ EndToEndCase =>
          /\ overall_counts = [kind \in {"empty_required", "table_not_found"} |-> 1]
          /\ per_sheet_results[1].Sheet = Plan[1].Sheet
          /\ per_sheet_results[2].Sheet = Plan[2].Sheet

\* C4: when load_excel_data fails, validate_one_sheet does not raise: it returns
\* a Sheet Result whose error is the failure message.
C4_OneSheetIsRecoveryBoundary ==
    vos.at = "load" =>
        /\ ~vos.raised
        /\ Failed(vos.result)

\* C5: a failed sheet's result has an error, no missing_required, and counts
\* that are {sheet_not_found: 1} exactly when the message starts with
\* SHEET_NOT_FOUND:, {table_not_found: 1} exactly when it starts with
\* TABLE_NOT_FOUND:, and empty otherwise.
C5_FailureClassification ==
    \A i \in 1..Len(per_sheet_results) :
        LET r == per_sheet_results[i] IN
        Failed(r) =>
            /\ r.missing_required = <<>>
            /\ r.counts = [kind \in {"sheet_not_found"} |-> 1]
                  <=> StartsWith(r.error.msg, SHEET_NOT_FOUND)
            /\ r.counts = [kind \in {"table_not_found"} |-> 1]
                  <=> StartsWith(r.error.msg, TABLE_NOT_FOUND)
            /\ (~StartsWith(r.error.msg, SHEET_NOT_FOUND)
                /\ ~StartsWith(r.error.msg, TABLE_NOT_FOUND)) => r.counts = NoCounts

\* C12 state part: at the call of validate_one_sheet of every entry the pointer
\* of a seekable source is at 0
C12_PointerAtCall == (pc = "call" /\ Seekable(file)) => file.pos = 0

\* C12 step part: the reset step goes on to the call of the same entry
\* whether seek(0) worked, raised or was not there, and changes nothing else
C12_RewindStep ==
    pc = "rewind" =>
        /\ pc' = "call"
        /\ idx' = idx
        /\ per_sheet_results' = per_sheet_results
        /\ Seekable(file) => file'.pos = 0
        /\ ~Seekable(file) => file' = file

\* C12: before the retrieval of every plan entry a seekable source is rewound
\* to position 0, wherever earlier retrievals left the pointer and whether
\* they failed; a seek(0) that raises is swallowed and the run goes on.
C12_RewindBeforeEachSheet == [](C12_PointerAtCall) /\ [][C12_RewindStep]_vars

\* the second entry of a stream is about to be retrieved after a failed first one
C12_Witness ==
    /\ pc = "call"
    /\ idx = 2
    /\ file.kind = "stream"
    /\ file.pos = 0
    /\ ~per_sheet_results[1].error.none

\* a pipe: the reset raised after a retrieval moved the pointer, and the run
\* went on to the call
C12_SwallowedWitness ==
    /\ pc = "call"
    /\ idx = 2
    /\ file.kind = "pipe"
    /\ file.pos > 0

-----------------------------------------------------------------------------
(* The plan builder on its own: app.main builds the plan from the catalog  *)
(* before every run (app.py line 55).                                      *)

MaxCatalog == 3

\* Sheet cells of a catalog: a missing value, '', ' ', a name, a number
PlanSheets == { NullV, Text(<<>>), Text(<<" ">>), Text(A), IntV(7) }

PlanRows == { Rule(sv, t, "y", "year", TRUE, FALSE) : sv \in PlanSheets, t \in {NaN, "T"} }

PlanCatalogs ==
    { [fields |-> f, rows |-> rows] :
        f \in { AllFields, AllFields \ {"TableName"}, AllFields \ {"Sheet"} },
        rows \in SeqsUpTo(PlanRows, MaxCatalog) }

IdleFile == [kind |-> "path", pos |-> 0]

InitPlan ==
    /\ pc = "plan"
    /\ validation_sheet \in PlanCatalogs
    /\ plan_df = PlanNone
    /\ progress_callback = FALSE
    /\ file = IdleFile
    /\ IdleRun
    /\ IdleApp
    /\ IdleSheet

BuildPlan ==
    /\ pc = "plan"
    /\ plan_df' = PlanOf(build_validation_plan(validation_sheet))
    /\ pc' = "plan_done"
    /\ UNCHANGED appVars
    /\ UNCHANGED <<validation_sheet, progress_callback, file>>
    /\ UNCHANGED runVars
    /\ UNCHANGED sheetVars

NextPlan == BuildPlan

SpecPlan == InitPlan /\ [][NextPlan]_vars

\* the (Sheet, TableName) pair a rule stands for, the Sheet in its str form
PairOf(rule) ==
    [Sheet     |-> Str(rule.Sheet),
     TableName |-> IF "TableName" \in validation_sheet.fields THEN rule.TableName ELSE None]

\* a Sheet that is absent (a missing value) or blank (nothing but spaces)
IsBlankSheet(value) == isna(value) \/ Strip(Str(value)) = <<>>

FirstAt(seq, x) == CHOOSE i \in 1..Len(seq) : seq[i] = x /\ \A j \in 1..(i-1) : seq[j] # x

CatalogPairs(keep(_)) ==
    { PairOf(validation_sheet.rows[i]) :
        i \in { j \in 1..Len(validation_sheet.rows) : keep(validation_sheet.rows[j].Sheet) } }

PairSeq == [i \in 1..Len(validation_sheet.rows) |-> PairOf(validation_sheet.rows[i])]

\* no duplicate pair, the pairs in the order of their first occurrence
PlanIsOrderedAndUnique ==
    /\ ~HasDuplicates(Plan)
    /\ \A i, j \in 1..Len(Plan) :
          i < j => FirstAt(PairSeq, Plan[i]) < FirstAt(PairSeq, Plan[j])

\* C6: for a catalog with a Sheet field, the plan has no duplicate pair, lists
\* the pairs in the order of their first occurrence, holds exactly the pairs of
\* the rules whose Sheet is not blank, and has no entry with a blank or absent
\* Sheet.
C6_PlanContract ==
    (pc = "plan_done" /\ "Sheet" \in validation_sheet.fields) =>
        /\ Range(Plan) = CatalogPairs(LAMBDA v : ~IsBlankSheet(v))
        /\ PlanIsOrderedAndUnique
        /\ \A i \in 1..Len(Plan) : Strip(Plan[i].Sheet) # <<>>

\* what the code does keep: the pairs of the rules whose Sheet is not a
\* missing value, '' and ' ' included
PlanDropsMissingOnly ==
    (pc = "plan_done" /\ "Sheet" \in validation_sheet.fields) =>
        /\ Range(Plan) = CatalogPairs(LAMBDA v : ~isna(v))
        /\ PlanIsOrderedAndUnique

-----------------------------------------------------------------------------
(* The column selector and the cell validator on one sheet: lines 66 and   *)
(* 70 of validate_one_sheet, for a Dataset that was loaded.                *)

MaxRules == 2
MaxRows  == 2

Chars(n) == NatStr(n)

Nines13 == <<"9","9","9","9","9","9","9","9","9","9","9","9","9">>

\* the cells the Datasets are filled with
CellList ==
    << NullV,
       Text(<<>>),
       Text(<<"N","/","A">>),
       IntV(1899),
       IntV(1900),
       Text(<<" ">>),
       IntV(2100),
       IntV(2101),
       Text(<<" ","n","u","l","l"," ">>),
       Text(<<"a","b","c">>),
       FloatV(2100, 9),
       BoolV(TRUE),
       FloatV(1899, 9),
       Text(<<"Y">>),
       Text(Chars(1899) \o <<".">> \o Nines13),
       Text(<<"m","a","y","b","e">>),
       Text(<<" ","1","9","0","0"," ">>),
       Text(<<"n","a","n">>),
       Text(<<"-","1","9","0","0">>),
       Text(<<"1",".","5",".","2">>) >>

ColumnLists == { <<"a">>, <<"a", "b">>, <<"b", "a">>, <<"c">>, <<"c", "b", "a">> }

PosOf(seq, x) == CHOOSE i \in 1..Len(seq) : seq[i] = x

\* the cell of row r of the j-th column, for a Dataset filled from offset k
CellAt(k, j, r) == CellList[((k + 7 * (j - 1) + (r - 1)) % Len(CellList)) + 1]

SheetDataset(cols, n, k) ==
    Frame(cols, [r \in 1..n |-> r - 1],
          [c \in Range(cols) |-> [r \in 1..n |-> CellAt(k, PosOf(cols, c), r)]])

\* a data_sheet whose row labels are not the loader's 0..n-1: they start at -1
Relabelled(d) == [d EXCEPT !.index = [r \in 1..Len(d.index) |-> r - 2]]

SheetDatasets ==
    { SheetDataset(cols, n, k) :
        cols \in ColumnLists, n \in 0..MaxRows, k \in 0..(Len(CellList) - 1) }
    \cup { Relabelled(SheetDataset(cols, n, 0)) : cols \in ColumnLists, n \in 1..MaxRows }

\* rule rows: every datatype under Required / not AllowBrokenRefs on column a,
\* other policies on a, b and c, and a rule of another sheet
SheetRules ==
    { Rule(Text(A), NaN, "a", "year",  TRUE,  FALSE),
      Rule(Text(A), NaN, "a", "INT",   TRUE,  FALSE),
      Rule(Text(A), NaN, "a", "float", TRUE,  FALSE),
      Rule(Text(A), NaN, "a", "bool",  TRUE,  FALSE),
      Rule(Text(A), NaN, "a", "text",  TRUE,  FALSE),
      Rule(Text(A), NaN, "b", "Year",  FALSE, TRUE),
      Rule(Text(A), NaN, "b", "boolean", FALSE, FALSE),
      Rule(Text(A), NaN, "c", "number", TRUE, TRUE),
      Rule(Text(B), NaN, "b", "year",  TRUE,  FALSE) }

SheetCatalogs ==
    { [fields |-> AllFields, rows |-> rows] : rows \in SeqsUpTo(SheetRules, MaxRules) }

InitSheet ==
    /\ pc = "select"
    /\ validation_sheet \in SheetCatalogs
    /\ df \in SheetDatasets
    /\ sheet = A
    /\ subset = EmptyFrame
    /\ error_cells = NoErrors
    /\ plan_df = PlanNone
    /\ progress_callback = FALSE
    /\ file = IdleFile
    /\ IdleRun
    /\ IdleApp

\* validate_one_sheet line 66
SelectColumns ==
    /\ pc = "select"
    /\ subset' = select_validation_columns(df, validation_sheet, sheet)
    /\ pc' = "validate"
    /\ UNCHANGED appVars
    /\ UNCHANGED <<validation_sheet, plan_df, progress_callback, file, df, sheet, error_cells>>
    /\ UNCHANGED runVars

\* validate_one_sheet line 70: the Error Map, or an exception
FindErrors ==
    /\ pc = "validate"
    /\ \/ /\ ~FindErrorsRaises(subset, validation_sheet, sheet)
          /\ error_cells' = find_validation_errors(subset, validation_sheet, sheet)
          /\ pc' = "sheet_done"
       \/ /\ FindErrorsRaises(subset, validation_sheet, sheet)
          /\ error_cells' = error_cells
          /\ pc' = "sheet_raised"
    /\ UNCHANGED appVars
    /\ UNCHANGED <<validation_sheet, plan_df, progress_callback, file, df, sheet, subset>>
    /\ UNCHANGED runVars

\* a second call of find_validation_errors on the same subset and rules
FindErrorsAgain ==
    /\ pc = "sheet_done"
    /\ error_cells' = find_validation_errors(subset, validation_sheet, sheet)
    /\ pc' = "sheet_again"
    /\ UNCHANGED appVars
    /\ UNCHANGED <<validation_sheet, plan_df, progress_callback, file, df, sheet, subset>>
    /\ UNCHANGED runVars

NextSheet == SelectColumns \/ FindErrors \/ FindErrorsAgain

SpecSheet == InitSheet /\ [][NextSheet]_vars

-----------------------------------------------------------------------------
(* Properties of the column selector and the cell validator *)

Selected == pc \in {"validate", "sheet_done", "sheet_raised"}

SheetRuleList == RulesForSheet(validation_sheet, sheet)

\* the columns named by the rules of the target sheet, in declaration order
RuleColumns == ColumnList(SheetRuleList)

\* C7: the selector partitions the rule columns into present (the columns of
\* the subset) and missing (missing_required), and the subset holds no Dataset
\* column that no rule of the sheet names.
C7_SelectorPartition ==
    Selected =>
        LET present == Cols(subset)
            missing == Range(subset.missing_required)
        IN  /\ present \cup missing = Range(RuleColumns)
            /\ present \cap missing = {}
            /\ \A c \in Cols(subset) : c \in Range(RuleColumns)

\* what holds of the code: the rule columns are split into those the Dataset
\* has and missing_required, and a subset with a rule column has only rule columns
SelectorSplitsRuleColumns ==
    Selected =>
        LET missing == Range(subset.missing_required)
            have    == Range(RuleColumns) \cap Cols(df)
        IN  /\ have \cup missing = Range(RuleColumns)
            /\ have \cap missing = {}
            /\ have # {} => Cols(subset) = have
            /\ have = {} => subset.columns = df.columns /\ subset.index = <<>>

Key(i, column_name) == <<subset.index[i], column_name>>

Recorded(key, kind) == key \in DOMAIN error_cells /\ error_cells[key] = kind

\* the rules the claims are about: of the target sheet, on a column the subset has
PresentRules == { i \in 1..Len(SheetRuleList) : SheetRuleList[i].Column \in Cols(df) }

\* C8: in the Error Map the validator returns, under a rule with Required and without AllowBrokenRefs on a present
\* column, a null or '' cell is recorded as empty_required, a non-null cell whose
\* stripped text is a placeholder is recorded as blank_indicator, and so neither
\* carries the other kind or a type error, whatever the Datatype.
C8_EmptyAndPlaceholderCells ==
    pc = "sheet_done" =>
        \A n \in PresentRules :
            LET rule == SheetRuleList[n] IN
            (rule.Required /\ ~rule.AllowBrokenRefs) =>
                \A i \in 1..NRows(subset) :
                    LET value == subset.data[rule.Column][i] IN
                    /\ (value = NullV \/ value = Text(<<>>))
                          => Recorded(Key(i, rule.Column), "empty_required")
                    /\ (value # NullV /\ Strip(value.v) \in blank_indicators)
                          => Recorded(Key(i, rule.Column), "blank_indicator")
                    /\ value = Text(<<"N","/","A">>)
                          => Recorded(Key(i, rule.Column), "blank_indicator")

C8_Witness ==
    /\ pc = "sheet_done"
    /\ PresentRules # {}
    /\ \E n \in PresentRules :
          /\ SheetRuleList[n].Required /\ ~SheetRuleList[n].AllowBrokenRefs
          /\ SheetRuleList[n].Datatype = "year"
          /\ NRows(subset) = 2
          /\ subset.data[SheetRuleList[n].Column] = <<Text(<<>>), Text(<<"N","/","A">>)>>
          /\ Recorded(Key(1, SheetRuleList[n].Column), "empty_required")
          /\ Recorded(Key(2, SheetRuleList[n].Column), "blank_indicator")

\* a clean cell: not null, not '', not a placeholder
IsClean(value) ==
    /\ value.t # "null"
    /\ value # Text(<<>>)
    /\ Strip(value.v) \notin blank_indicators

\* the cell's text is a finite number for float()
IsNumber(value) == FloatOk(value.v) /\ ~FloatSpecial(value.v)

\* C9: in the Error Map the validator returns, under a rule with Datatype year
\* a clean cell is recorded as invalid_year exactly when its text is not a
\* number or the number, truncated to an integer, is outside 1900..2100; 1899
\* and 2101 are invalid_year, 1900 and 2100 carry no error.
C9_YearRange ==
    pc = "sheet_done" =>
        \A n \in PresentRules :
            LET rule == SheetRuleList[n] IN
            Lower(rule.Datatype) = "year" =>
                \A i \in 1..NRows(subset) :
                    LET value == subset.data[rule.Column][i]
                        key   == Key(i, rule.Column)
                    IN  /\ IsClean(value) =>
                              (Recorded(key, "invalid_year") <=>
                                  (\/ ~IsNumber(value)
                                   \/ IntOfFloat(value.v) < 1900
                                   \/ IntOfFloat(value.v) > 2100))
                        /\ value \in {IntV(1899), IntV(2101)} => Recorded(key, "invalid_year")
                        /\ value \in {IntV(1900), IntV(2100)} => key \notin DOMAIN error_cells

C9_Witness ==
    /\ pc = "sheet_done"
    /\ \E n \in PresentRules :
          /\ Lower(SheetRuleList[n].Datatype) = "year"
          /\ subset.data[SheetRuleList[n].Column] = <<IntV(2100), IntV(2101)>>
          /\ ~(Key(1, SheetRuleList[n].Column) \in DOMAIN error_cells)
          /\ Recorded(Key(2, SheetRuleList[n].Column), "invalid_year")

\* C10 as stated: the columns of the subset are in the order they have in the
\* Dataset.
C10_DatasetOrder ==
    Selected =>
        \A i, j \in 1..Len(subset.columns) :
            i < j => PosOf(df.columns, subset.columns[i]) <= PosOf(df.columns, subset.columns[j])

KthSmallest(S, k) == CHOOSE x \in S : Cardinality({ y \in S : y < x }) = k - 1

\* C10 as amended: the rule-named columns of the subset are in the order the
\* rules of the sheet declare them, one occurrence per rule naming a column
\* the Dataset has.
C10_RuleOrder ==
    Selected =>
        LET shown == SelectSeq(subset.columns, LAMBDA c : c \in Range(RuleColumns))
        IN  /\ Len(shown) = Cardinality(PresentRules)
            /\ \A k \in 1..Len(shown) :
                  shown[k] = SheetRuleList[KthSmallest(PresentRules, k)].Column

C10_Witness ==
    /\ Selected
    /\ df.columns = <<"b", "a">>
    /\ subset.columns = <<"a", "b">>

-----------------------------------------------------------------------------
(* The writes of find_validation_errors, one by one, in the order of the   *)
(* code: the missing columns, then per rule the required check, the blank  *)
(* check and the type check, each in row order.                            *)

Returned == pc \in {"sheet_done", "sheet_again"}

Write(key, kind) == [key |-> key, kind |-> kind]

RECURSIVE LogRows(_, _, _, _)
LogRows(data_sheet, rule, check, i) ==
    IF i > NRows(data_sheet) THEN <<>>
    ELSE LET kind == CheckKind(check, rule, data_sheet.data[rule.Column][i])
         IN  (IF kind = None THEN <<>>
              ELSE << Write(<<data_sheet.index[i], rule.Column>>, kind) >>)
             \o LogRows(data_sheet, rule, check, i + 1)

LogRule(data_sheet, rule) ==
    IF rule.Column \notin Cols(data_sheet) THEN <<>>
    ELSE LogRows(data_sheet, rule, "required", 1)
         \o LogRows(data_sheet, rule, "blank", 1)
         \o LogRows(data_sheet, rule, "type", 1)

RECURSIVE LogRules(_, _)
LogRules(data_sheet, rules) ==
    IF rules = <<>> THEN <<>>
    ELSE LogRule(data_sheet, Head(rules)) \o LogRules(data_sheet, Tail(rules))

WriteLog(data_sheet, validation_rules, s) ==
    [i \in 1..Len(data_sheet.missing_required) |->
        Write(<<-1, data_sheet.missing_required[i]>>, "missing_column")]
    \o LogRules(data_sheet, RulesForSheet(validation_rules, s))

\* the dict after the writes of a log, in order
RECURSIVE Replay(_, _)
Replay(m, log) ==
    IF log = <<>> THEN m
    ELSE Replay(Put(m, {Head(log).key}, Head(log).kind), Tail(log))

Reverse(seq) == [i \in 1..Len(seq) |-> seq[Len(seq) + 1 - i]]

SheetLog == WriteLog(subset, validation_sheet, sheet)

\* the checks that record a kind for a cell under a rule
ChecksHitting(rule, value) ==
    { check \in {"required", "blank", "type"} : CheckKind(check, rule, value) # None }

C11_WritesOnce ==
    (Returned /\ ~HasDuplicates(RuleColumns)) =>
        /\ LET log == SheetLog
           IN  /\ Replay(NoErrors, log) = error_cells
               /\ Replay(NoErrors, Reverse(log)) = error_cells
               /\ Cardinality({ log[i].key : i \in 1..Len(log) }) = Len(log)
        /\ \A n \in PresentRules : \A i \in 1..NRows(subset) :
              Cardinality(ChecksHitting(SheetRuleList[n],
                                        subset.data[SheetRuleList[n].Column][i])) <= 1
        /\ ApplyRules(Put(NoErrors, { <<-1, col>> : col \in Range(subset.missing_required) },
                          "missing_column"),
                      subset, Reverse(SheetRuleList)) = error_cells

C11_SecondRun ==
    (pc = "sheet_done" /\ pc' = "sheet_again") => error_cells' = error_cells

\* C11: with the Column values of the sheet's rules unique, the validator
\* writes every key of the Error Map once: for each cell at most one of the
\* required, blank and type checks records a kind, so the map is the same when
\* the writes or the rules are applied in the opposite order, and a second
\* call on the same subset and rules returns the same map.
C11_DisjointChecks == [](C11_WritesOnce) /\ [][C11_SecondRun]_vars

C11_Witness ==
    /\ pc = "sheet_again"
    /\ ~HasDuplicates(RuleColumns)
    /\ Len(SheetRuleList) = 2
    /\ subset.missing_required # <<>>
    /\ {"missing_column", "blank_indicator", "invalid_year"}
          \subseteq { error_cells[k] : k \in DOMAIN error_cells }

\* the columns the rules of the sheet name and the Dataset lacks
MissingColumns == Range(RuleColumns) \ Cols(df)

\* C13: the Error Map has, for every column the sheet's rules name and the
\* Dataset lacks, the one entry (-1, column) with kind missing_column, whatever
\* the rule's Required, AllowBrokenRefs and Datatype; missing_column is the
\* kind of no other key, no other key has a missing column, also when a row of
\* the Dataset is labelled -1, and counts['missing_column'] is the number of
\* distinct missing columns.
C13_MissingColumnEntries ==
    Returned =>
        /\ \A col \in MissingColumns :
              /\ Recorded(<<-1, col>>, "missing_column")
              /\ \A k \in DOMAIN error_cells : k[2] = col => k = <<-1, col>>
        /\ \A k \in DOMAIN error_cells :
              error_cells[k] = "missing_column" <=> k[2] \in MissingColumns
        /\ LET counts == summarize_errors(error_cells)
           IN  IF MissingColumns = {} THEN "missing_column" \notin DOMAIN counts
               ELSE /\ "missing_column" \in DOMAIN counts
                    /\ counts["missing_column"] = Cardinality(MissingColumns)

C13_Witness ==
    /\ Returned
    /\ -1 \in Range(subset.index)
    /\ \E col \in MissingColumns, c \in Cols(subset) :
          /\ \E n \in 1..Len(SheetRuleList) :
                SheetRuleList[n].Column = col /\ ~SheetRuleList[n].Required
          /\ Recorded(<<-1, col>>, "missing_column")
          /\ Recorded(<<-1, c>>, "empty_required")

-----------------------------------------------------------------------------
(* app.main: one rerun of the script per user interaction.  The session    *)
(* state outlives the reruns; a key that was deleted or never set reads as *)
(* FALSE (the flags) or NoSig (the signatures).                            *)

\* file_sig = f"{uploaded.name}:{uploaded.size}"
Sig(u) == <<u.name, u.size>>

\* what load_excel_data does on a sheet of a workbook: a Dataset, an exception
\* with an unclassified message, or a missing sheet
AppLoads ==
    { l \in LoadOutcomes : l.ok \/ l.msg \in { <<"x">>, <<SHEET_NOT_FOUND, "x">> } }

\* uploaded workbooks: the content is not part of the signature
Uploads ==
    { [none |-> FALSE, name |-> "f.xlsx", size |-> sz, loads |-> ld] :
        sz \in {1, 2}, ld \in [{A, B} -> AppLoads] }

EmptyCatalog == [fields |-> AllFields, rows |-> <<>>]

\* validate_all as a function of the workbook: the Sheet Result of every entry
SheetResultOf(load, validation_rules, s, table) ==
    LET v == validate_one_sheet(load, validation_rules, s, table, FALSE, <<>>)
    IN  IF v.raised THEN FailureResult(s, table, v.msg) ELSE v.result

ValidateAllResults(u, validation_rules, plan) ==
    [i \in 1..Len(plan) |->
        SheetResultOf(u.loads[plan[i].Sheet], validation_rules,
                      plan[i].Sheet, NormTable(plan[i].TableName))]

RECURSIVE ValidateAllCounts(_)
ValidateAllCounts(results) ==
    IF results = <<>> THEN NoCounts
    ELSE FoldCounts(ValidateAllCounts(SubSeq(results, 1, Len(results) - 1)),
                    results[Len(results)].counts)

\* line 90: any(r.get("counts") for r in per_sheet_results)
AnyCounts(results) == \E i \in 1..Len(results) : DOMAIN results[i].counts # {}

\* lines 42-49: a signature other than the remembered one clears the flags
AfterSigCheck(st, u) ==
    IF ~u.none /\ st.last_file_sig # Sig(u)
    THEN [NoSession EXCEPT !.last_file_sig = Sig(u)]
    ELSE st

\* lines 90-93: the success flags are set when no result has counts, and left
\* as they are otherwise
AfterSummary(st, results) ==
    IF ~AnyCounts(results)
    THEN [st EXCEPT !.validation_success = TRUE, !.validated_file_sig = st.last_file_sig]
    ELSE st

\* lines 186-188
valid_for_this_file(st) ==
    st.validation_success /\ st.validated_file_sig = st.last_file_sig

InitApp ==
    /\ pc = "app"
    /\ validation_sheet \in {RunCatalog, EmptyCatalog}
    /\ plan_df = PlanNone
    /\ progress_callback = TRUE
    /\ file = IdleFile
    /\ IdleRun
    /\ IdleSheet
    /\ IdleApp

\* main(), from the uploader to the "Upload Data" section
Rerun ==
    \E u \in Uploads \cup {NoUpload} :
    \E s1 \in { AfterSigCheck(session_state, u) } :
    \E plan \in { build_validation_plan(validation_sheet) } :
        /\ uploaded' = u
        /\ \/ /\ u.none                      \* line 50: return
              /\ session_state' = s1
              /\ pc' = "no_file"
              /\ UNCHANGED <<plan_df, total, overall_counts, per_sheet_results>>
           \/ /\ ~u.none /\ plan = <<>>      \* line 57: return
              /\ session_state' = s1
              /\ plan_df' = PlanOf(plan)
              /\ pc' = "no_plan"
              /\ UNCHANGED <<total, overall_counts, per_sheet_results>>
           \/ /\ ~u.none /\ plan # <<>>      \* lines 64-188
              /\ \E results \in { ValidateAllResults(u, validation_sheet, plan) } :
                 \E s3 \in { AfterSummary([s1 EXCEPT !.upload_success = TRUE], results) } :
                     /\ session_state' = s3
                     /\ plan_df' = PlanOf(plan)
                     /\ total' = Len(plan)
                     /\ per_sheet_results' = results
                     /\ overall_counts' = ValidateAllCounts(results)
                     /\ pc' = IF valid_for_this_file(s3) THEN "end_game" ELSE "level_up"
        /\ UNCHANGED <<validation_sheet, idx, vos, calls, progress_calls,
                       progress_callback, file>>
        /\ UNCHANGED sheetVars

NextApp == Rerun

SpecApp == InitApp /\ [][NextApp]_vars

\* the "Upload Data" section was rendered for the uploaded file
Rendered == pc \in {"end_game", "level_up"}

Unlocked ==
    /\ session_state.validation_success
    /\ session_state.validated_file_sig = Sig(uploaded)

ZeroErrorRun ==
    /\ overall_counts = NoCounts
    /\ \A i \in 1..Len(per_sheet_results) : per_sheet_results[i].error.none

\* C14: after any sequence of reruns, the "Upload Data" step is unlocked for
\* the uploaded file only if the run just made on it had empty overall counts
\* and no Sheet Result with error set.
C14_UnlockOnlyAfterZeroErrorRun == Rendered => (Unlocked => ZeroErrorRun)

\* what holds of the code: the section shows the end game exactly when the
\* flags are set for the signature of the uploaded file, and a run with counts
\* on a file whose signature is new leaves the step locked
UnlockedIsEndGame ==
    Rendered => /\ session_state.last_file_sig = Sig(uploaded)
                /\ (pc = "end_game" <=> Unlocked)

NewSignatureWithCountsLocks ==
    [][(/\ ~uploaded'.none
        /\ Sig(uploaded') # session_state.last_file_sig
        /\ pc' \in {"end_game", "level_up"}
        /\ AnyCounts(per_sheet_results')) => pc' = "level_up"]_vars

\* a later run with errors on a file of the same signature stays unlocked
StaleUnlock ==
    /\ pc = "end_game"
    /\ overall_counts # NoCounts

=============================================================================
